---------------------------- MODULE Spec2Model ----------------------------
(***************************************************************************)
(* Model of the chat server of src/main.go: the ConnectionPool ("Hub"),    *)
(* its event loop Run, the command interpreter handleCommand, and the      *)
(* session goroutines of runServer that feed it through unbuffered         *)
(* channels.                                                               *)
(*                                                                         *)
(* Representation of strings.  A line of text is modelled as the non-empty *)
(* sequence of its space-free words: the string w1 + " " + w2 + ... + wn   *)
(* is <<w1, ..., wn>>, and the empty string is <<"">>.  This is a          *)
(* bijection between strings and non-empty word sequences, so              *)
(* strings.Split(s, " ") is the sequence itself and strings.Join(p, " ")   *)
(* is the sequence again, except that joining the empty list gives the     *)
(* empty string <<"">>.  A word is a TLA+ string; "" is the empty word.    *)
(*                                                                         *)
(* A net.Conn is identified by its RemoteAddr().String(): the transport    *)
(* gives distinct live connections distinct remote addresses, and an       *)
(* address is reused only by a connection accepted after the goroutine of  *)
(* the previous one has returned.                                          *)
(***************************************************************************)
EXTENDS Integers, Sequences, FiniteSets, TLC

VARIABLES
    connections,  \* pool.connections: the set of keys; the value at key n is the conn of address n
    nicks,        \* pool.nicks: function from a set of addresses to words
    rnicks,       \* pool.rnicks: function from a set of words to addresses
    hub,          \* position of the Run goroutine: "Running", "Stopped", "Panicked"
    quitc,        \* pool.quitc: "open" or "closed"
    closed,       \* the conns that are closed, by Run or by a reset of the transport: writes to them fail
    pc,           \* position of the session goroutine of each address
    runpc,        \* where Run is in its loop: "select", or "loop" after the body of a case
    last,         \* history: the event Run processed last, with the locals of its handler
                  \* and whether its conn was a key of pool.connections when it was received
    sent          \* history: for each conn, the lines Run wrote to it while processing last

vars == <<connections, nicks, rnicks, hub, quitc, closed, pc, runpc, last, sent>>

----------------------------------------------------------------------------
(* Bounds and input sets *)

\* a submitted line carries at most MaxArgs words of ordinary text
MaxArgs == 2

\* the remote addresses of the clients
Ids == {"a", "b", "c"}

\* words a client passes as a nickname: the empty word, an ordinary word,
\* and a word equal to the remote address of a client
NickWords == {"", "x", "c"}

\* words a client passes as a /privmsg target
TargetWords == {"x", "c", "a", "b"}

\* words of ordinary text
TextWords == {"yo"}

\* words that start with the command prefix "/"
SlashWords == {"/nick", "/privmsg", "/who", "/foo"}

\* the nil net.Conn
Nil == "<nil>"

\* the sequences over S of length m to n
SeqsFromTo(S, m, n) == UNION {[1..k -> S] : k \in m..n}

\* the lines a client submits: plain text; /nick without argument, with one
\* word, and with a word followed by more words; /privmsg without argument and
\* with a target followed by text; /who and an unknown command
PlainLines == {<<"hi">> \o p : p \in SeqsFromTo(TextWords, 0, MaxArgs)}
NickLines == {<<"/nick">>}
             \cup {<<"/nick", n>> \o p : n \in NickWords, p \in SeqsFromTo(TextWords, 0, MaxArgs - 1)}
PrivLines == {<<"/privmsg">>}
             \cup {<<"/privmsg", t>> \o p : t \in TargetWords, p \in SeqsFromTo(TextWords, 0, MaxArgs - 1)}
OtherLines == {<<c>> \o p : c \in {"/who", "/foo"}, p \in SeqsFromTo(TextWords, 0, 1)}
Lines == PlainLines \cup NickLines \cup PrivLines \cup OtherLines

----------------------------------------------------------------------------
(* Strings *)

\* strings.HasPrefix(s, "/")
HasPrefixSlash(s) == s[1] \in SlashWords

\* strings.Join(parts, " ")
Join(parts) == IF parts = <<>> THEN <<"">> ELSE parts

\* the absent text of a message format without a %s for text
NoText == <<>>

(* The formats of the lines Run writes to a conn. *)
\* "> %s\n"
SelfMsg(text) == [fmt |-> "self", a |-> "", b |-> "", text |-> text]
\* "%s> %s\n"
AttrMsg(from, text) == [fmt |-> "attr", a |-> from, b |-> "", text |-> text]
\* "Nickname '%s' cannot have spaces in\n"
SpacesMsg(nick) == [fmt |-> "spaces", a |-> "", b |-> "", text |-> nick]
\* "Nickname '%s' is already taken by %s\n"
TakenMsg(nick, owner) == [fmt |-> "taken", a |-> nick, b |-> owner, text |-> NoText]
\* "User '%s' tried to steal your nickname '%s'\n"
StealMsg(user, nick) == [fmt |-> "steal", a |-> user, b |-> nick, text |-> NoText]
\* "Couldn't find a person named '%s'\n"
NotFoundMsg(name) == [fmt |-> "notfound", a |-> name, b |-> "", text |-> NoText]
\* "You can't privmsg yourself\n"
NoSelfMsg == [fmt |-> "noself", a |-> "", b |-> "", text |-> NoText]
\* "%s (private)> %s\n"
PrivateMsg(from, text) == [fmt |-> "private", a |-> from, b |-> "", text |-> text]
\* "Message sent\n"
SentMsg == [fmt |-> "sent", a |-> "", b |-> "", text |-> NoText]
\* "Unknown command %s\n"
UnknownMsg(cmd) == [fmt |-> "unknown", a |-> cmd, b |-> "", text |-> NoText]
\* the text "Nickname changed from '%s' to '%s'"
ChangedText(old, new) == <<"Nickname changed from", old, "to", new>>

----------------------------------------------------------------------------
(* The pool *)

NoWrites == [c \in Ids |-> <<>>]

\* fmt.Fprintf(conn, ...): one more line written to conn; on a closed conn the
\* write returns an error, which no caller looks at
Fprintf(out, conn, msg) == IF conn \in closed THEN out ELSE [out EXCEPT ![conn] = Append(@, msg)]

\* m[k] = v of a Go map
MapSet(m, k, v) == [x \in (DOMAIN m) \cup {k} |-> IF x = k THEN v ELSE m[x]]

\* m[k] of a Go map of strings: the zero value "" when k is absent
MapGet(m, k) == IF k \in DOMAIN m THEN m[k] ELSE ""

EmptyMap == [x \in {} |-> ""]

\* getNames: the address of the sender and the name it is displayed with
getNames(name) ==
    LET nick == MapGet(nicks, name)
    IN  [name |-> name, nick |-> IF nick = "" THEN name ELSE nick]

\* connectionFromNickOrName: the conn a nickname or an address resolves to, or Nil
connectionFromNickOrName(name) ==
    LET n == IF name \in DOMAIN rnicks THEN rnicks[name] ELSE name
    IN  IF n \in connections THEN n ELSE Nil

\* sendAll that returns at the first write that fails: in map order that may
\* be the first conn, so nobody is written to
sendAll_StopOnError(out, from, text) ==
    IF connections \cap closed # {}
    THEN out
    ELSE [c \in Ids |->
            IF c \in connections
            THEN Append(out[c], IF c = from THEN SelfMsg(text) ELSE AttrMsg(from, text))
            ELSE out[c]]

\* sendAll: one line to every conn of the pool, self-framed for the key equal to from
sendAll(out, from, text) ==
    [c \in Ids |->
        IF c \in connections
        THEN Fprintf(out, c, IF c = from THEN SelfMsg(text) ELSE AttrMsg(from, text))[c]
        ELSE out[c]]

\* handleMessage: a plain line is sent to all, from the display name of the sender
handleMessage(name, text) ==
    [nicks |-> nicks, rnicks |-> rnicks, panic |-> FALSE,
     out |-> sendAll(NoWrites, getNames(name).nick, text)]


\* an entry of the /who listing: "nick (name)" when a nickname is bound, " *" for the requester
WhoEntry(n, name) ==
    [name |-> n, bound |-> n \in DOMAIN nicks, nick |-> MapGet(nicks, n), self |-> n = name]

\* WhoMsg listing every address that has a nickname instead of every key of the roster
WhoMsg_FromNicks(name) == [fmt |-> "who", a |-> "", b |-> "", text |-> NoText,
                           names |-> {WhoEntry(n, name) : n \in DOMAIN nicks \cup {name}}]

\* "%s\n" of the joined /who entries; the entries come in map order
WhoMsg(name) == [fmt |-> "who", a |-> "", b |-> "", text |-> NoText,
                 names |-> {WhoEntry(n, name) : n \in connections}]

\* handleNick installing the two bindings before the collision check
handleNick_BindFirst(name, nick, parts) ==
    IF Len(parts) > 1
    THEN [nicks |-> nicks, rnicks |-> rnicks, panic |-> FALSE,
          out |-> Fprintf(NoWrites, name, SpacesMsg(Join(parts)))]
    ELSE IF Len(parts) = 0
    THEN [nicks |-> nicks, rnicks |-> rnicks, panic |-> TRUE, out |-> NoWrites]
    ELSE LET newNick == parts[1]
             remote == connectionFromNickOrName(newNick)
         IN  [nicks |-> MapSet(nicks, name, newNick),
              rnicks |-> MapSet(rnicks, newNick, name),
              panic |-> FALSE,
              out |-> IF remote # Nil
                      THEN Fprintf(Fprintf(NoWrites, name, TakenMsg(newNick, remote)),
                                   remote, StealMsg(name, newNick))
                      ELSE sendAll(NoWrites, name, ChangedText(nick, newNick))]

\* handleCommand, case cmd == "/nick"
handleNick(name, nick, parts) ==
    IF Len(parts) > 1
    THEN [nicks |-> nicks, rnicks |-> rnicks, panic |-> FALSE,
          out |-> Fprintf(NoWrites, name, SpacesMsg(Join(parts)))]
    ELSE IF Len(parts) = 0
    THEN \* parts[0] of an empty slice: index out of range
         [nicks |-> nicks, rnicks |-> rnicks, panic |-> TRUE, out |-> NoWrites]
    ELSE LET newNick == parts[1]
             remote == connectionFromNickOrName(newNick)
         IN  IF remote # Nil
             THEN [nicks |-> nicks, rnicks |-> rnicks, panic |-> FALSE,
                   out |-> Fprintf(Fprintf(NoWrites, name, TakenMsg(newNick, remote)),
                                   remote, StealMsg(name, newNick))]
             ELSE [nicks |-> MapSet(nicks, name, newNick),
                   rnicks |-> MapSet(rnicks, newNick, name),
                   panic |-> FALSE,
                   out |-> sendAll(NoWrites, name, ChangedText(nick, newNick))]

\* handleCommand, case cmd == "/privmsg"
handlePrivmsg(name, nick, parts) ==
    IF Len(parts) = 0
    THEN \* parts[0] of an empty slice: index out of range
         [nicks |-> nicks, rnicks |-> rnicks, panic |-> TRUE, out |-> NoWrites]
    ELSE LET rnick == parts[1]
             text == Join(Tail(parts))
             remote == connectionFromNickOrName(rnick)
         IN  [nicks |-> nicks, rnicks |-> rnicks, panic |-> FALSE,
              out |-> IF remote = Nil
                      THEN Fprintf(NoWrites, name, NotFoundMsg(rnick))
                      ELSE IF remote = name
                      THEN Fprintf(NoWrites, name, NoSelfMsg)
                      ELSE Fprintf(Fprintf(NoWrites, remote, PrivateMsg(nick, text)),
                                   name, SentMsg)]

\* handleCommand: the command is the first word of the line, its arguments the rest
handleCommand(name, text) ==
    LET nick == getNames(name).nick
        cmd == Head(text)
        parts == Tail(text)
    IN  CASE cmd = "/nick" -> handleNick(name, nick, parts)
          [] cmd = "/privmsg" -> handlePrivmsg(name, nick, parts)
          [] cmd = "/who" ->
                [nicks |-> nicks, rnicks |-> rnicks, panic |-> FALSE,
                 out |-> Fprintf(NoWrites, name, WhoMsg(name))]
          [] OTHER ->
                [nicks |-> nicks, rnicks |-> rnicks, panic |-> FALSE,
                 out |-> Fprintf(NoWrites, name, UnknownMsg(cmd))]

----------------------------------------------------------------------------
(* The goroutines *)

NoEvent == [kind |-> "none", name |-> "", nick |-> "", text |-> NoText, inpool |-> FALSE]

Init ==
    /\ connections = {}
    /\ nicks = EmptyMap
    /\ rnicks = EmptyMap
    /\ hub = "Running"
    /\ quitc = "open"
    /\ closed = {}
    /\ pc = [i \in Ids |-> "idle"]
    /\ runpc = "select"
    /\ last = NoEvent
    /\ sent = NoWrites

(* The cases of the select of Run.  Each is taken together with the send of *)
(* the session goroutine it receives from: the channels are unbuffered.     *)

\* Run, case conn := <-pool.connectc
RunConnect(i) ==
    /\ hub = "Running"
    /\ runpc = "select"
    /\ runpc' = "loop"
    /\ connections' = connections \cup {i}
    /\ closed' = closed \ {i}  \* the conn received is a new one, and open
    /\ last' = [kind |-> "connect", name |-> i, nick |-> "", text |-> NoText,
                inpool |-> i \in connections]
    /\ sent' = NoWrites
    /\ UNCHANGED <<nicks, rnicks, hub, quitc>>

\* RunDisconnect that treats a conn that is not in the roster as a fatal error
RunDisconnect_Strict(i) ==
    /\ hub = "Running"
    /\ runpc = "select"
    /\ runpc' = "loop"
    /\ connections' = connections \ {i}
    /\ hub' = IF i \in connections THEN "Running" ELSE "Panicked"
    /\ last' = [kind |-> "disconnect", name |-> i, nick |-> "", text |-> NoText,
                inpool |-> i \in connections]
    /\ sent' = NoWrites
    /\ UNCHANGED <<nicks, rnicks, quitc, closed>>

\* RunDisconnect without the delete: the roster keeps the conn
RunDisconnect_NoDelete(i) ==
    /\ hub = "Running"
    /\ runpc = "select"
    /\ runpc' = "loop"
    /\ last' = [kind |-> "disconnect", name |-> i, nick |-> "", text |-> NoText,
                inpool |-> i \in connections]
    /\ sent' = NoWrites
    /\ UNCHANGED <<connections, nicks, rnicks, hub, quitc, closed>>

\* Run, case conn := <-pool.disconnectc
RunDisconnect(i) ==
    /\ hub = "Running"
    /\ runpc = "select"
    /\ runpc' = "loop"
    /\ connections' = connections \ {i}
    /\ last' = [kind |-> "disconnect", name |-> i, nick |-> "", text |-> NoText,
                inpool |-> i \in connections]
    /\ sent' = NoWrites
    /\ UNCHANGED <<nicks, rnicks, hub, quitc, closed>>

\* Run, case message := <-pool.broadcastc
RunBroadcast(i, text) ==
    /\ hub = "Running"
    /\ runpc = "select"
    /\ runpc' = "loop"
    /\ LET r == IF HasPrefixSlash(text) THEN handleCommand(i, text) ELSE handleMessage(i, text)
       IN  /\ nicks' = r.nicks
           /\ rnicks' = r.rnicks
           /\ sent' = r.out
           /\ hub' = IF r.panic THEN "Panicked" ELSE "Running"
    /\ last' = [kind |-> "broadcast", name |-> i, nick |-> getNames(i).nick, text |-> text,
                inpool |-> i \in connections]
    /\ UNCHANGED <<connections, quitc, closed>>

\* RunQuit with a break that only leaves the select: the conns are closed and Run loops on
RunQuit_Break ==
    /\ hub = "Running"
    /\ runpc = "select"
    /\ runpc' = "loop"
    /\ closed' = closed \cup connections
    /\ last' = [kind |-> "quit", name |-> "", nick |-> "", text |-> NoText, inpool |-> FALSE]
    /\ sent' = NoWrites
    /\ UNCHANGED <<hub, connections, nicks, rnicks>>

\* Run, case <-pool.quitc, ready once quitc is closed: every conn of the pool is
\* closed and Run returns
RunQuit ==
    /\ hub = "Running"
    /\ runpc = "select"
    /\ UNCHANGED runpc
    /\ closed' = closed \cup connections
    /\ hub' = "Stopped"
    /\ last' = [kind |-> "quit", name |-> "", nick |-> "", text |-> NoText, inpool |-> FALSE]
    /\ sent' = NoWrites
    /\ UNCHANGED <<connections, nicks, rnicks>>

\* Run, the back edge of the for loop: the next select starts with no event
\* in hand and nothing written
RunLoop ==
    /\ hub = "Running"
    /\ runpc = "loop"
    /\ runpc' = "select"
    /\ last' = NoEvent
    /\ sent' = NoWrites
    /\ UNCHANGED <<connections, nicks, rnicks, hub, quitc, closed, pc>>

(* The events of the Hub: a step of a session goroutine of runServer and *)
(* the case of Run that receives what it sends.                          *)

\* a conn is accepted, its goroutine calls pool.Add, and Run registers it
Register(i) ==
    /\ quitc = "open"
    /\ pc[i] = "idle"
    /\ RunConnect(i)
    /\ pc' = [pc EXCEPT ![i] = "scan"]

\* scanner.Scan() returns a line, the goroutine calls pool.Broadcast, and Run handles the line
Inbound(i, text) ==
    /\ pc[i] = "scan"
    /\ RunBroadcast(i, text)
    /\ UNCHANGED pc

\* scanner.Scan() returns false, the deferred pool.Delete is called, Run
\* unregisters the conn, and the goroutine returns
Unregister(i) ==
    /\ pc[i] = "scan"
    /\ RunDisconnect(i)
    /\ pc' = [pc EXCEPT ![i] = "idle"]

\* the accept loop ends, the deferred pool.Shutdown closes quitc, and Run takes the quit case
Shutdown ==
    /\ quitc = "open"
    /\ quitc' = "closed"
    /\ RunQuit
    /\ UNCHANGED pc

Next ==
    \/ \E i \in Ids : Register(i)
    \/ \E i \in Ids : Unregister(i)
    \/ \E i \in Ids, text \in Lines : Inbound(i, text)
    \/ Shutdown
    \/ RunLoop

Spec == Init /\ [][Next]_vars

(* The pool driven through its methods by any caller: as Spec, and Delete is *)
(* also called for conns that are not registered.                            *)

\* pool.Delete is called for a conn that was never registered, or was
\* unregistered before, and Run takes the disconnectc case
DeleteAgain(i) ==
    /\ pc[i] = "idle"
    /\ RunDisconnect(i)
    /\ UNCHANGED pc

NextPool ==
    \/ Next
    \/ \E i \in Ids : DeleteAgain(i)

SpecPool == Init /\ [][NextPool]_vars

TypeOK ==
    /\ connections \subseteq Ids
    /\ DOMAIN nicks \subseteq Ids
    /\ \A i \in DOMAIN nicks : nicks[i] \in NickWords
    /\ DOMAIN rnicks \subseteq NickWords
    /\ \A n \in DOMAIN rnicks : rnicks[n] \in Ids
    /\ hub \in {"Running", "Stopped", "Panicked"}
    /\ quitc \in {"open", "closed"}
    /\ closed \subseteq Ids
    /\ pc \in [Ids -> {"idle", "add", "scan", "bcast", "delete"}]
    /\ runpc \in {"select", "loop"}

(* The session goroutines of runServer step by step: each send on a channel *)
(* of the pool blocks until Run receives it.                                *)

\* the lines a session submits in SpecSess
SessLines == {<<"hi">>, <<"/nick", "x">>, <<"/who">>}

\* Accept whose goroutine does not wait for pool.Add and starts to scan at once
Accept_NoWait(i) ==
    /\ quitc = "open"
    /\ pc[i] = "idle"
    /\ pc' = [pc EXCEPT ![i] = "scan"]
    /\ UNCHANGED <<connections, nicks, rnicks, hub, quitc, closed, runpc, last, sent>>

\* ln.Accept() returns a conn and its goroutine starts: it calls pool.Add and
\* blocks in the send on connectc
Accept(i) ==
    /\ quitc = "open"
    /\ pc[i] = "idle"
    /\ pc' = [pc EXCEPT ![i] = "add"]
    /\ UNCHANGED <<connections, nicks, rnicks, hub, quitc, closed, runpc, last, sent>>

\* Run receives the conn of pool.Add, and the goroutine goes on to scanner.Scan()
SessAdd(i) ==
    /\ pc[i] = "add"
    /\ RunConnect(i)
    /\ pc' = [pc EXCEPT ![i] = "scan"]

\* scanner.Scan() returns true: the goroutine calls pool.Broadcast and blocks
\* in the send on broadcastc
ScanLine(i) ==
    /\ pc[i] = "scan"
    /\ i \notin closed
    /\ pc' = [pc EXCEPT ![i] = "bcast"]
    /\ UNCHANGED <<connections, nicks, rnicks, hub, quitc, closed, runpc, last, sent>>

\* scanner.Scan() returns false (end of stream, read error, conn closed): the
\* deferred pool.Delete is called and blocks in the send on disconnectc
ScanEnd(i) ==
    /\ pc[i] = "scan"
    /\ pc' = [pc EXCEPT ![i] = "delete"]
    /\ UNCHANGED <<connections, nicks, rnicks, hub, quitc, closed, runpc, last, sent>>

\* Run receives the message of pool.Broadcast, and the goroutine scans again
SessBroadcast(i, text) ==
    /\ pc[i] = "bcast"
    /\ RunBroadcast(i, text)
    /\ pc' = [pc EXCEPT ![i] = "scan"]

\* Run receives the conn of pool.Delete, and the goroutine returns
SessDelete(i) ==
    /\ pc[i] = "delete"
    /\ RunDisconnect(i)
    /\ pc' = [pc EXCEPT ![i] = "idle"]

\* the accept loop ends and the deferred pool.Shutdown closes quitc
PoolShutdown ==
    /\ quitc = "open"
    /\ quitc' = "closed"
    /\ UNCHANGED <<connections, nicks, rnicks, hub, closed, pc, runpc, last, sent>>

\* Run finds quitc closed and takes the quit case
SessQuit ==
    /\ quitc = "closed"
    /\ RunQuit
    /\ UNCHANGED <<quitc, pc>>

\* a step of the session goroutine of address i
SessStep(i) ==
    \/ SessAdd(i)
    \/ ScanLine(i)
    \/ ScanEnd(i)
    \/ \E text \in SessLines : SessBroadcast(i, text)
    \/ SessDelete(i)

NextSess ==
    \/ \E i \in Ids : Accept(i)
    \/ \E i \in Ids : SessStep(i)
    \/ PoolShutdown
    \/ SessQuit
    \/ RunLoop

SpecSess == Init /\ [][NextSess]_vars

\* every goroutine that can take a step eventually takes one: the Go scheduler
\* runs every runnable goroutine, and a select with a ready case proceeds
SpecSessFair ==
    /\ SpecSess
    /\ \A i \in Ids : WF_vars(SessStep(i))
    /\ WF_vars(SessQuit)
    /\ WF_vars(RunLoop)

(* The events of the Hub with conns that break: as Spec, with fewer lines, *)
(* and the transport may reset the conn of a roster member at any time.   *)

\* the lines a client submits in SpecWrite
WriteLines == {<<"hi">>, <<"/nick", "x">>, <<"/nick", "c">>,
               <<"/privmsg", "x", "yo">>, <<"/privmsg", "b", "yo">>, <<"/privmsg", "c">>}

\* the peer of conn i resets it: from now on a write to the conn fails
ConnReset(i) ==
    /\ hub = "Running"
    /\ runpc = "select"
    /\ i \in connections
    /\ i \notin closed
    /\ closed' = closed \cup {i}
    /\ UNCHANGED <<connections, nicks, rnicks, hub, quitc, pc, runpc, last, sent>>

NextWrite ==
    \/ \E i \in Ids : Register(i)
    \/ \E i \in Ids : Unregister(i)
    \/ \E i \in Ids, text \in WriteLines : Inbound(i, text)
    \/ \E i \in Ids : ConnReset(i)
    \/ Shutdown
    \/ RunLoop

SpecWrite == Init /\ [][NextWrite]_vars

----------------------------------------------------------------------------
(* Properties *)

\* Run has just handled a line that is not a command
PlainHandled == last.kind = "broadcast" /\ ~HasPrefixSlash(last.text)

\* Run has just handled the line text submitted by sender
Handled(sender, text) == last.kind = "broadcast" /\ last.name = sender /\ last.text = text

\* the sessions whose Add has been received by Run and whose Delete has not
Registered == {i \in Ids : pc[i] \in {"scan", "bcast", "delete"}}

\* the lines written to conn c are exactly one line, of format f
OneLine(c, f) == Len(sent[c]) = 1 /\ sent[c][1].fmt = f

\* C1: when Run has handled a plain line of a roster member A, with or without
\* a nickname, A was written exactly one self-framed line with the text, and
\* every other roster member exactly one attributed line with the same text.
C1_FanOut ==
    PlainHandled =>
        /\ last.name \in connections
        /\ sent[last.name] = <<SelfMsg(last.text)>>
        /\ \A c \in connections \ {last.name} :
              /\ OneLine(c, "attr")
              /\ sent[c][1].text = last.text

\* C2: the two nickname maps are inverse to each other: nicks[i] = n exactly
\* when rnicks[n] = i.
C2_Bidirectional ==
    \A i \in Ids, n \in NickWords :
        (i \in DOMAIN nicks /\ nicks[i] = n) <=> (n \in DOMAIN rnicks /\ rnicks[n] = i)

\* C3: every address with a nickname, and every address a nickname maps to, is
\* in the roster.
C3_BindingsOnlyForRoster ==
    /\ DOMAIN nicks \subseteq connections
    /\ \A n \in DOMAIN rnicks : rnicks[n] \in connections

\* C4: the keys of the roster are exactly the addresses registered and not
\* unregistered since, and handling an inbound line leaves the roster as it was.
C4_Roster ==
    /\ [](connections = Registered)
    /\ [][last'.kind = "broadcast" => connections' = connections]_vars

\* C4 witness: a line was handled while one address was registered, another was
\* registered and unregistered again, and the third never registered
C4_Witness ==
    /\ last.kind = "broadcast"
    /\ connections = {"a"}
    /\ "b" \in DOMAIN nicks
    /\ "c" \notin DOMAIN nicks

\* C5: whatever line Run handles, it is still running afterwards.
C5_NeverStops ==
    last.kind = "broadcast" => hub = "Running"

\* the formats of the notices of handleCommand, as opposed to the lines of sendAll
NoticeFmts == {"spaces", "taken", "steal", "notfound", "noself", "sent", "unknown"}

\* only conn c was written to, and it was written exactly one notice
OnlyNoticeTo(c) ==
    /\ Len(sent[c]) = 1
    /\ sent[c][1].fmt \in NoticeFmts
    /\ \A d \in Ids \ {c} : sent[d] = <<>>

\* address i is bound to nickname n in the forward map
BoundTo(i, n) == i \in DOMAIN nicks /\ nicks[i] = n

\* C6: when roster member A is bound to nickname n and another roster member B
\* submits "/nick n", B is told that n is taken by A, A is told that B tried to
\* take n, nobody else is written to, and both nickname maps stay as they were.
C6_Collision ==
    [][\A A \in Ids, B \in Ids, n \in NickWords :
          (/\ A # B
           /\ {A, B} \subseteq connections
           /\ BoundTo(A, n)
           /\ Handled(B, <<"/nick", n>>)')
          => /\ sent' = [c \in Ids |-> IF c = B THEN <<TakenMsg(n, A)>>
                                       ELSE IF c = A THEN <<StealMsg(B, n)>>
                                       ELSE <<>>]
             /\ UNCHANGED <<nicks, rnicks>>]_vars

\* C7: when a roster member submits "/nick" without argument or with the empty
\* word as argument, it alone is written a notice, and both nickname maps stay
\* as they were.
C7_EmptyNick ==
    [][\A A \in Ids, t \in {<<"/nick">>, <<"/nick", "">>} :
          (A \in connections /\ Handled(A, t)')
          => /\ OnlyNoticeTo(A)'
             /\ UNCHANGED <<nicks, rnicks>>]_vars

\* C8: when roster member A submits "/nick n" and n is its own nickname or its
\* own address, A is written neither a "taken" nor a "steal" notice, and
\* afterwards A is bound to n in both maps.
C8_OwnName ==
    [][\A A \in Ids, n \in NickWords :
          (/\ A \in connections
           /\ BoundTo(A, n) \/ n = A
           /\ Handled(A, <<"/nick", n>>)')
          => /\ \A k \in 1..Len(sent'[A]) : sent'[A][k].fmt \notin {"taken", "steal"}
             /\ BoundTo(A, n)'
             /\ (n \in DOMAIN rnicks /\ rnicks[n] = A)']_vars

\* C9: with three members A, B, C in the roster, when A submits
\* "/privmsg t text" and t is the nickname or the address of B, B is written
\* exactly one private line with the text and the display name of A, A exactly
\* one "Message sent", and C nothing.
C9_PrivmsgRoundTrip ==
    [][\A A \in Ids, B \in Ids, t \in TargetWords, p \in SeqsFromTo(TextWords, 1, MaxArgs - 1) :
          (/\ A # B
           /\ connections = Ids
           /\ BoundTo(B, t) \/ t = B
           /\ Handled(A, <<"/privmsg", t>> \o p)')
          => sent' = [c \in Ids |-> IF c = B THEN <<PrivateMsg(getNames(A).nick, p)>>
                                    ELSE IF c = A THEN <<SentMsg>>
                                    ELSE <<>>]]_vars

\* the word t is neither the nickname nor the address of a roster member
NoSuchTarget(t) == ~ \E B \in connections : BoundTo(B, t) \/ t = B

\* C10: when the target of a /privmsg is neither the nickname nor the address
\* of a roster member, or resolves to the sender, the sender alone is written a
\* notice, and roster and nickname maps stay as they were.
C10_PrivmsgFailure ==
    [][\A A \in Ids, t \in TargetWords, p \in SeqsFromTo(TextWords, 0, MaxArgs - 1) :
          (/\ A \in connections
           /\ NoSuchTarget(t) \/ connectionFromNickOrName(t) = A
           /\ Handled(A, <<"/privmsg", t>> \o p)')
          => /\ OnlyNoticeTo(A)'
             /\ sent'[A][1].fmt \in {"notfound", "noself"}
             /\ UNCHANGED <<connections, nicks, rnicks>>]_vars

\* C11: when Run has handled "/who" of roster member A, only A was written to,
\* with one listing that has exactly one entry for each key of the roster and
\* no other entry, and the entry of A, and no other, carries the self mark.
C11_Who ==
    \A A \in Ids, p \in SeqsFromTo(TextWords, 0, 1) :
        Handled(A, <<"/who">> \o p) =>
            /\ A \in connections
            /\ \A c \in Ids \ {A} : sent[c] = <<>>
            /\ OneLine(A, "who")
            /\ LET names == sent[A][1].names
               IN  /\ {e.name : e \in names} = connections
                   /\ Cardinality(names) = Cardinality(connections)
                   /\ \A e \in names : e.self <=> e.name = A

\* C11 witness: "/who" of a was handled with a and b in the roster while c,
\* which has left, still has a nickname
C11_Witness ==
    /\ Handled("a", <<"/who">>)
    /\ connections = {"a", "b"}
    /\ "c" \in DOMAIN nicks
    /\ OneLine("a", "who")

\* C16: when roster member A changes its nickname with success, A is written
\* the change notice self-framed and every other roster member the same notice
\* attributed to the name A was displayed with before: its previous nickname
\* if it had one, else its address.
C16_NickAnnounce ==
    [][\A A \in Ids, n \in NickWords :
          (/\ A \in connections
           /\ connectionFromNickOrName(n) = Nil
           /\ Handled(A, <<"/nick", n>>)')
          => LET old == getNames(A).nick
                 text == ChangedText(old, n)
             IN  sent' = [c \in Ids |-> IF c = A THEN <<SelfMsg(text)>>
                                        ELSE IF c \in connections THEN <<AttrMsg(old, text)>>
                                        ELSE <<>>]]_vars

\* C17: handling an inbound line never changes the roster; it changes a
\* nickname map only if it is a /nick that was announced as a change; and an
\* unknown command writes one notice naming it to the sender and nothing else.
C17_Frame ==
    [][\A A \in Ids :
          (runpc = "select" /\ last'.kind = "broadcast" /\ last'.name = A)
          => LET text == last'.text
             IN  /\ connections' = connections
                 /\ (nicks' # nicks \/ rnicks' # rnicks)
                       => /\ Head(text) = "/nick"
                          /\ Len(text) = 2
                          /\ sent'[A] = <<SelfMsg(ChangedText(last'.nick, text[2]))>>
                 /\ (HasPrefixSlash(text) /\ Head(text) \notin {"/nick", "/privmsg", "/who"})
                       => /\ UNCHANGED <<nicks, rnicks>>
                          /\ sent' = [c \in Ids |-> IF c = A THEN <<UnknownMsg(Head(text))>>
                                                    ELSE <<>>]]_vars

\* C17 witness: a /nick of b has failed on the nickname of a, which a still has
C17_Witness ==
    /\ Handled("b", <<"/nick", "x">>)
    /\ OneLine("b", "taken")
    /\ BoundTo("a", "x")
    /\ "b" \notin DOMAIN nicks

\* C19: no two roster members have the same nickname.
C19_UniqueNicks ==
    \A A \in connections, B \in connections :
        (A # B /\ A \in DOMAIN nicks /\ B \in DOMAIN nicks) => nicks[A] # nicks[B]

\* C20: no nickname is the address of another roster member.
C20_NoShadow ==
    \A A \in DOMAIN nicks, C \in connections : A # C => nicks[A] # C

\* C12: after Run has handled Unregister(A), A is not in the roster and Run is
\* still running; and an Unregister(A) handled while A is not in the roster
\* (a second one in a row, or one for a conn never registered) leaves roster
\* and nickname maps as they were.
C12_UnregisterIdempotent ==
    [][\A A \in Ids :
          (runpc = "select" /\ last'.kind = "disconnect" /\ last'.name = A)
          => /\ A \notin connections'
             /\ hub' = "Running"
             /\ A \notin connections => UNCHANGED <<connections, nicks, rnicks>>]_vars

\* C12 witness: an Unregister was handled for an address that had been
\* unregistered before, while another address was in the roster
C12_Witness ==
    /\ last.kind = "disconnect"
    /\ ~last.inpool
    /\ last.name \in DOMAIN nicks
    /\ connections # {}
    /\ hub = "Running"

\* C13: when Run handles Shutdown it closes every conn of the roster and
\* stops; it stops in no other way; and once it has stopped it handles no
\* further event and roster and nickname maps never change.
C13_ShutdownTerminal ==
    [][/\ (runpc = "select" /\ last'.kind = "quit")
             => (hub' = "Stopped" /\ connections \subseteq closed')
       /\ (hub # "Stopped" /\ hub' = "Stopped")
             => (quitc = "closed" /\ last'.kind = "quit")
       /\ hub = "Stopped"
             => (hub' = "Stopped" /\ UNCHANGED <<connections, nicks, rnicks, last, sent>>)]_vars

\* C13 witness: Run has stopped with a nickname bound, and since then one
\* session has come to its Delete while another is still in its Add
C13_Witness ==
    /\ hub = "Stopped"
    /\ last.kind = "quit"
    /\ connections # {}
    /\ connections \subseteq closed
    /\ nicks # EmptyMap
    /\ \E i \in Ids : pc[i] = "delete"
    /\ \E i \in Ids : pc[i] = "add"

\* C14: once Run has stopped, every session goroutine eventually returns.
C14_SessionsTerminate ==
    (hub = "Stopped") ~> (\A i \in Ids : pc[i] = "idle")

WrittenIfOpen(c, m) == sent'[c] = IF c \in closed THEN <<>> ELSE <<m>>

\* C18: when Run handles a line while some conns of the roster are closed,
\* every open conn that the line is for is still written its line: a plain
\* line and a nickname change go to every open conn of the roster, a private
\* line to its target and the confirmation to the sender, the collision
\* notices to requester and owner; the nickname maps become what they become
\* without the failure, the roster stays, and Run is still running.
C18_WriteFailureIsolated ==
    [][\A A \in Ids :
          (runpc = "select" /\ last'.kind = "broadcast" /\ last'.name = A)
          => LET text == last'.text
                 nick == getNames(A).nick
                 remote == connectionFromNickOrName(text[2])
             IN  /\ hub' = "Running"
                 /\ connections' = connections
                 /\ closed' = closed
                 /\ \A c \in Ids \ connections : sent'[c] = <<>>
                 /\ Head(text) = "hi" =>
                       /\ UNCHANGED <<nicks, rnicks>>
                       /\ \A c \in connections :
                             WrittenIfOpen(c, IF c = nick THEN SelfMsg(text)
                                              ELSE AttrMsg(nick, text))
                 /\ (Head(text) = "/privmsg" /\ remote \notin {Nil, A}) =>
                       /\ UNCHANGED <<nicks, rnicks>>
                       /\ WrittenIfOpen(remote, PrivateMsg(nick, Join(Tail(Tail(text)))))
                       /\ WrittenIfOpen(A, SentMsg)
                 /\ (Head(text) = "/nick" /\ remote = Nil) =>
                       /\ nicks' = MapSet(nicks, A, text[2])
                       /\ rnicks' = MapSet(rnicks, text[2], A)
                       /\ \A c \in connections :
                             WrittenIfOpen(c, IF c = A THEN SelfMsg(ChangedText(nick, text[2]))
                                              ELSE AttrMsg(A, ChangedText(nick, text[2])))
                 /\ (Head(text) = "/nick" /\ remote \notin {Nil, A}) =>
                       /\ UNCHANGED <<nicks, rnicks>>
                       /\ WrittenIfOpen(A, TakenMsg(text[2], remote))
                       /\ WrittenIfOpen(remote, StealMsg(A, text[2]))]_vars

\* C18 witness: a plain line was handled with three conns in the roster, one
\* of them closed: the closed one was written nothing, the two others a line
C18_Witness ==
    /\ Handled("a", <<"hi">>)
    /\ connections = Ids
    /\ closed = {"b"}
    /\ sent["b"] = <<>>
    /\ Len(sent["a"]) = 1
    /\ Len(sent["c"]) = 1
    /\ hub = "Running"

=============================================================================
